---- MODULE Spec2Model ----
(***************************************************************************)
(* State-machine model of the course and job controllers of the graduate   *)
(* tracking application: the Mongoose collections are the state, every     *)
(* request handler and every promise callback is one action.               *)
(*                                                                         *)
(* Text is a tuple of one-character strings, so that split, RegExp,        *)
(* toUpperCase and parseInt are computed rather than assumed.              *)
(* An absent form field or sheet cell is <<>>, "" or 0 according to the    *)
(* field's type (util.validateModelData and util.allFieldsExist treat the  *)
(* empty string like a missing key).                                       *)
(***************************************************************************)
EXTENDS Integers, Sequences, FiniteSets, TLC

\* ------------------------------------------------------------------ bounds
\* ObjectIds handed out by save(); no insert happens once they are used up.
MaxId == 4
\* Rows of an uploaded sheet (sheet rows 1..MaxRow).
MaxRow == 3
\* Requests that may be in flight at once.  The single administrator of the
\* application only ever uses slot 1; SpecConcurrent has a second session
\* in slot 2.
NumSlots == 2

Slots == 1..NumSlots

\* -------------------------------------------------------------------- text
\* F applied to the value of x: x is evaluated once, however many times F
\* uses it (TLC evaluates an operator's argument anew at every use when it
\* evaluates ENABLED).
Once(x, F(_)) == CHOOSE y \in {F(v) : v \in {x}} : TRUE

Upper == <<"A", "B", "C", "D", "E", "F", "G", "H", "I", "J", "K", "L", "M",
           "N", "O", "P", "Q", "R", "S", "T", "U", "V", "W", "X", "Y", "Z">>
Lower == <<"a", "b", "c", "d", "e", "f", "g", "h", "i", "j", "k", "l", "m",
           "n", "o", "p", "q", "r", "s", "t", "u", "v", "w", "x", "y", "z">>

LowerOf == [c \in {Upper[k] : k \in 1..Len(Upper)} |->
              Lower[CHOOSE k \in 1..Len(Upper) : Upper[k] = c]]

UpperOf == [c \in {Lower[k] : k \in 1..Len(Lower)} |->
              Upper[CHOOSE k \in 1..Len(Lower) : Lower[k] = c]]

LowerChar(c) == Once(c, LAMBDA v : IF v \in DOMAIN LowerOf THEN LowerOf[v] ELSE v)

UpperChar(c) == Once(c, LAMBDA v : IF v \in DOMAIN UpperOf THEN UpperOf[v] ELSE v)

toLowerCase(s) == Once(s, LAMBDA v : [i \in 1..Len(v) |-> LowerChar(v[i])])

toUpperCase(s) == Once(s, LAMBDA v : [i \in 1..Len(v) |-> UpperChar(v[i])])

IsSpace(c) == c = " "

RECURSIVE LTrim(_)
LTrim(s) ==
  Once(s, LAMBDA v : IF v # <<>> /\ IsSpace(Head(v)) THEN LTrim(Tail(v)) ELSE v)

RECURSIVE RTrim(_)
RTrim(s) ==
  Once(s, LAMBDA v : IF v # <<>> /\ IsSpace(v[Len(v)])
                     THEN RTrim(SubSeq(v, 1, Len(v) - 1)) ELSE v)

\* Index of the first character of s satisfying the test, 0 if none.
FirstComma(s) ==
  IF \E i \in 1..Len(s) : s[i] = ","
  THEN CHOOSE i \in 1..Len(s) : s[i] = "," /\ \A j \in 1..(i - 1) : s[j] # ","
  ELSE 0

FirstSpace(s) ==
  IF \E i \in 1..Len(s) : IsSpace(s[i])
  THEN CHOOSE i \in 1..Len(s) : IsSpace(s[i]) /\ \A j \in 1..(i - 1) : ~IsSpace(s[j])
  ELSE 0

\* s.split(/\s*,\s*/): the pieces between commas, the blanks around each
\* comma belonging to the separator.
RECURSIVE SplitComma(_)
SplitComma(s) ==
  Once(s, LAMBDA v : Once(FirstComma(v), LAMBDA i :
    IF i = 0 THEN <<v>>
    ELSE <<RTrim(SubSeq(v, 1, i - 1))>> \o SplitComma(LTrim(SubSeq(v, i + 1, Len(v))))))

\* s.split(/\s* \s*/): the pieces between runs of blanks.
RECURSIVE SplitSpace(_)
SplitSpace(s) ==
  Once(s, LAMBDA v : Once(FirstSpace(v), LAMBDA i :
    IF i = 0 THEN <<v>>
    ELSE <<SubSeq(v, 1, i - 1)>> \o SplitSpace(LTrim(SubSeq(v, i + 1, Len(v))))))

\* new RegExp(p, "i").test(text): p occurs in text, letter case ignored.
\* (The names of the model hold no regular-expression metacharacters.)
RegExpTestI(p, text) ==
  \E q \in {toLowerCase(p)}, t \in {toLowerCase(text)} :
    \E i \in 0..(Len(t) - Len(q)) : SubSeq(t, i + 1, i + Len(q)) = q

\* parts[k] of a JavaScript array (k counted from 0) used as a RegExp source:
\* new RegExp(undefined) is the empty pattern, which matches every text.
PatternAt(parts, k) == IF k + 1 <= Len(parts) THEN parts[k + 1] ELSE <<>>

NaN == -1

Digits ==
  ("0" :> 0) @@ ("1" :> 1) @@ ("2" :> 2) @@ ("3" :> 3) @@ ("4" :> 4) @@
  ("5" :> 5) @@ ("6" :> 6) @@ ("7" :> 7) @@ ("8" :> 8) @@ ("9" :> 9)

RECURSIVE DigitsValue(_, _)
DigitsValue(s, acc) ==
  IF s # <<>> /\ Head(s) \in DOMAIN Digits
  THEN DigitsValue(Tail(s), 10 * acc + Digits[Head(s)])
  ELSE acc

\* parseInt(parts[k]): NaN for undefined and for text that does not start
\* (after blanks) with a digit.
parseInt(s) ==
  LET t == LTrim(s) IN
  IF t # <<>> /\ Head(t) \in DOMAIN Digits THEN DigitsValue(t, 0) ELSE NaN

ParseIntAt(parts, k) == IF k + 1 <= Len(parts) THEN parseInt(parts[k + 1]) ELSE NaN

\* ------------------------------------------------------------------ schema
COMP == <<"C", "O", "M", "P">>
CS == <<"C", "S">>
TA == <<"T", "A">>
RA == <<"R", "A">>
FA == <<"F", "A">>
Smith == <<"S", "m", "i", "t", "h">>
Jane == <<"J", "a", "n", "e">>

\* courseSchema.category, jobSchema.position and semesterSchema.season enums.
CategoryEnum == {"NA", "Theory", "Systems", "Appls"}
PositionEnum == {RA, TA, <<"O", "T", "H", "E", "R">>}

\* The declared fields the model keeps.  Course: number stands for the plain
\* fields (number, univNumber, name, topic, hours, section), which every
\* handler treats alike.  Job: description, hours and fundingSource are
\* plain optional fields no handler reads and are left out.
CourseFields == {"department", "number", "category", "faculty", "semester"}
JobFields == {"position", "supervisor", "semester", "course"}
\* The cells of a sheet row: the reference columns hold text.
CourseCells == {"department", "number", "category", "facultyText", "semesterText"}

\* The value that stands for "no such key" in a field of each type.
Absent(f) ==
  CASE f \in {"department", "position", "facultyText", "semesterText",
              "supervisorText", "courseText"} -> <<>>
    [] f \in {"category", "onyen"} -> ""
    [] OTHER -> 0

Present(rec, f) == f \in DOMAIN rec /\ rec[f] # Absent(f)

\* util.validateModelData(input, model): the declared fields of input; every
\* other key is dropped.  (Empty values are already the absent value.)
validateModelData(input, fields) ==
  [f \in (DOMAIN input) \cap (fields \cup {"_id"}) |-> input[f]]

\* util.allFieldsExist(input, model): every declared field present and
\* non-empty.
allFieldsExist(input, fields) == \A f \in fields : Present(input, f)

\* Model.find(query): a document matches when it agrees with the query on
\* every key the query holds.
Matches(doc, query) ==
  \A f \in DOMAIN query : Present(query, f) => (f \in DOMAIN doc /\ doc[f] = query[f])

Find(coll, query) == {d \in coll : Matches(d, query)}

\* Model.findOne(query): one matching document (the first in natural order,
\* which is insertion order, hence the least _id) or null.
Null == [_id |-> 0]

FirstOf(docs) ==
  IF docs = {} THEN Null
  ELSE CHOOSE d \in docs : \A e \in docs : d._id <= e._id

findOne(coll, query) == FirstOf(Find(coll, query))

\* document.save(): Mongoose validates the enum paths first; a path that is
\* not set passes.
ValidCourse(c) == ~Present(c, "category") \/ c.category \in CategoryEnum

ValidJob(j) == ~Present(j, "position") \/ j.position \in PositionEnum

\* new schema.Course(fields): strict mode keeps the declared paths only and
\* the document gets a fresh _id.
NewDoc(fields, input, id) ==
  [f \in fields \cup {"_id"} |->
     IF f = "_id" THEN id ELSE IF f \in DOMAIN input THEN input[f] ELSE Absent(f)]

\* ------------------------------------------------------------------- state
VARIABLES
  faculty,    \* schema.Faculty: set of [_id, lastName, firstName]
  semesters,  \* schema.Semester: set of [_id, year, season]
  courses,    \* schema.Course: set of [_id, department, number, category, faculty, semester]
  jobs,       \* schema.Job: set of [_id, position, supervisor, semester, course]
  grades,     \* schema.Grade: set of [_id, course]
  students,   \* schema.Student: set of [_id, onyen, jobHistory, grades]
  nextId,     \* the next ObjectId save() hands out
  req,        \* per slot: the request in flight or last answered
  rows        \* per slot: the row chains a bulk request dispatched

vars == <<faculty, semesters, courses, jobs, grades, students, nextId, req, rows>>

stores == <<faculty, semesters, courses, jobs, grades, students>>

\* A request: op and pc say which callback runs next, input is req.body /
\* req.params, res the calls made on the response object in order, thrown the
\* exception that escaped the handler or a promise callback ("" if none).
Idle == [op |-> "none", pc |-> "done", input |-> Null, res |-> <<>>, thrown |-> ""]

Request(op, pc, input) ==
  [op |-> op, pc |-> pc, input |-> input, res |-> <<>>, thrown |-> ""]

F1 == [_id |-> 1, lastName |-> Smith, firstName |-> Jane]
S1 == [_id |-> 1, year |-> 2024, season |-> FA]
C0 == [_id |-> 1, department |-> COMP, number |-> 410, category |-> "Systems",
       faculty |-> 1, semester |-> 1]
J0 == [_id |-> 2, position |-> TA, supervisor |-> 1, semester |-> 1, course |-> 1]
G1 == [_id |-> 1, course |-> 1]

Student(id, onyen, hist, gr) ==
  [_id |-> id, onyen |-> onyen, jobHistory |-> hist, grades |-> gr]

\* The store a department starts a term with: its faculty and semester, and
\* possibly a course with a job attached and a grade recorded for it.
InitStores ==
  /\ faculty = {F1}
  /\ semesters = {S1}
  /\ \/ courses = {} /\ jobs = {} /\ grades = {}
        /\ students = {Student(1, "ann", <<>>, {})}
     \/ courses = {C0} /\ jobs \in {{}, {J0}} /\ grades = {G1}
        /\ students \in {{Student(1, "ann", <<>>, g)} : g \in {{}, {1}}}
  /\ nextId = 3

Init ==
  /\ InitStores
  /\ req = [r \in Slots |-> Idle]
  /\ rows = [r \in Slots |-> <<>>]

\* ------------------------------------------------------------------ inputs
\* Form bodies.  A body holds every field or lacks exactly one; faculty 2
\* names no Faculty document.
Blank(body, f) == [body EXCEPT ![f] = Absent(f)]

CourseBody(d, c, f) ==
  [department |-> d, number |-> 410, category |-> c, faculty |-> f, semester |-> 1]

CourseBodies ==
  {CourseBody(d, c, f) : d \in {COMP, CS}, c \in {"Systems", "s"}, f \in {1, 2}}
  \cup {Blank(CourseBody(d, "Systems", 1), f) : d \in {COMP, CS}, f \in CourseFields}

CoursePutBodies ==
  { CourseBody(COMP, "Systems", 2), CourseBody(CS, "Systems", 1),
    Blank(CourseBody(CS, "Systems", 1), "number") }

JobBody(p, f, c) ==
  [position |-> p, supervisor |-> f, semester |-> 1, course |-> c]

JobBodies ==
  {JobBody(p, f, c) : p \in {TA, <<"t", "a">>}, f \in {1, 2}, c \in {0, 1}}
  \cup {Blank(JobBody(TA, 1, 1), f) : f \in JobFields}

JobPutBodies ==
  { JobBody(RA, 1, 0), JobBody(TA, 2, 1), Blank(JobBody(TA, 1, 1), "supervisor") }

Ids == 1..MaxId

WithId(body, id) == [f \in DOMAIN body \cup {"_id"} |-> IF f = "_id" THEN id ELSE body[f]]

\* Sheet rows.  Row 1 is the header of the template or missing.
Y2024 == <<"2", "0", "2", "4">>
SmithJane == Smith \o <<",", " ">> \o Jane
DoeJohn == <<"D", "o", "e", ",", " ", "J", "o", "h", "n">>
CourseRow(d, n, c, f, m) ==
  [department |-> d, number |-> n, category |-> c, facultyText |-> f, semesterText |-> m]

CourseHeader ==
  CourseRow(<<"d", "e", "p", "t">>, 1, "category", <<"f", "a", "c">>, <<"s", "e", "m">>)

CourseRows ==
  { CourseRow(COMP, 410, "s", SmithJane, FA \o <<",", " ">> \o Y2024),
    CourseRow(COMP, 410, "s", SmithJane, FA \o <<" ">> \o Y2024),
    CourseRow(CS, 410, "S", <<"s", "m", "i", "t", "h", ",", "j", "a", "n", "e">>,
              <<"f", "a", ",">> \o Y2024),
    CourseRow(COMP, 410, "", SmithJane, FA \o <<",", " ">> \o Y2024),
    CourseRow(COMP, 410, "x", SmithJane, FA \o <<",", " ">> \o Y2024),
    CourseRow(COMP, 410, "s", SmithJane, <<"S", "P", ",", " ">> \o Y2024),
    CourseRow(COMP, 410, "s", DoeJohn, FA \o <<",", " ">> \o Y2024),
    CourseHeader }

\* Rows that differ in the category cell alone.
Categories ==
  {"t", "T", "s", "S", "a", "A", "applications", "Applications", "Theory", "x"}

CategoryRows ==
  {CourseRow(COMP, 410, c, SmithJane, FA \o <<",", " ">> \o Y2024) : c \in Categories}

JobRow(o, p, f, m, c) ==
  [onyen |-> o, position |-> p, supervisorText |-> f, semesterText |-> m, courseText |-> c]

JobHeader ==
  JobRow("onyen", <<"p", "o", "s">>, <<"f", "a", "c">>, <<"s", "e", "m">>, <<>>)

JobRows ==
  { JobRow("ann", <<"t", "a">>, SmithJane, FA \o <<" ">> \o Y2024, <<>>),
    JobRow("ann", TA, SmithJane, FA \o <<" ">> \o Y2024,
           COMP \o <<" ", "4", "1", "0">>),
    JobRow("bob", RA, SmithJane, <<"f", "a", " ", " ">> \o Y2024, <<>>),
    JobRow("ann", <<>>, SmithJane, FA \o <<" ">> \o Y2024, <<>>),
    JobRow("ann", <<"x">>, SmithJane, FA \o <<" ">> \o Y2024, <<>>),
    JobRow("ann", TA, SmithJane, FA \o <<",", " ">> \o Y2024, <<>>),
    JobHeader }

\* input.students of an assign and studentId of an unAssign: student 2 does
\* not exist.
AssignBodies == {<<1>>, <<2>>}
StudentRefs == {1, 2}

\* A sheet gives, for each of its rows 1..MaxRow, the cells of the row or
\* NoRow when the row holds no cell.
NoRow == Null

Sheets(header, body) ==
  {sh \in [1..MaxRow -> body \cup {NoRow}] : sh[1] \in {header, NoRow}}

\* ------------------------------------------------------- request plumbing
\* The row chains are over when each has reached a final pc.
FinalPc == {"hole", "done", "died"}

ChainsDone(r) == \A i \in 1..Len(rows[r]) : rows[r][i].pc \in FinalPc

\* Slot r can take a new request.
Free(r) == req[r] = Idle /\ rows[r] = <<>>

\* res.render / res.redirect / res.json on request r.
Respond(rq, call) == [rq EXCEPT !.res = Append(@, call), !.pc = "done"]

\* A call on res that leaves the request where it is (a row chain's render,
\* or a render the handler does not return after).
Call(rq, call) == [rq EXCEPT !.res = Append(@, call)]

\* An exception that nothing catches: no call on res follows.
Throw(rq, err) == [rq EXCEPT !.thrown = err, !.pc = "done"]

Goto(rq, pc) == [rq EXCEPT !.pc = pc]

\* The exchange is over: the response was sent (or the handler died) and the
\* background chains have run out; the request's objects are dropped.
Finish(r) ==
  /\ req[r] # Idle
  /\ req[r].pc = "done"
  /\ ChainsDone(r)
  /\ req' = [req EXCEPT ![r] = Idle]
  /\ rows' = [rows EXCEPT ![r] = <<>>]
  /\ UNCHANGED <<stores, nextId>>

\* ----------------------------------------------------- courseController.post
\* The handler proper: the field check, then Course.findOne(input) is issued.
\* "throw new error(...)" names an undefined identifier, so what is thrown is
\* a ReferenceError; either way the handler dies before any database call.
CoursePost(r) ==
  /\ Free(r)
  /\ \E input \in CourseBodies :
       req' = [req EXCEPT ![r] =
         IF allFieldsExist(input, CourseFields)
         THEN Request("coursePost", "findOne", input)
         ELSE Throw(Request("coursePost", "done", input), "ReferenceError")]
  /\ rows' = [rows EXCEPT ![r] = <<>>]
  /\ UNCHANGED <<stores, nextId>>

\* The callback without its test of the result.
CoursePostFoundUnchecked(r) ==
  /\ req[r].op = "coursePost" /\ req[r].pc = "findOne"
  /\ req' = [req EXCEPT ![r] =
       IF Len(req[r].input.department) # 4
       THEN Respond(@, "Please input four letter department code")
       ELSE Goto(@, "save")]
  /\ UNCHANGED <<stores, nextId, rows>>

\* The callback of findOne: duplicate first, then the department length.
CoursePostFound(r) ==
  /\ req[r].op = "coursePost" /\ req[r].pc = "findOne"
  /\ LET input == req[r].input
         result == findOne(courses, input)
     IN req' = [req EXCEPT ![r] =
          IF result # Null THEN Respond(@, "This course already exists.")
          ELSE IF Len(input.department) # 4
          THEN Respond(@, "Please input four letter department code")
          ELSE Goto(@, "save")]
  /\ UNCHANGED <<stores, nextId, rows>>

\* inputCourse.save() and its callback.  The promise of save() is not
\* returned to the outer chain, so a validation error is caught by nobody.
CoursePostSave(r) ==
  /\ req[r].op = "coursePost" /\ req[r].pc = "save"
  /\ nextId <= MaxId
  /\ LET inputCourse == NewDoc(CourseFields,
                               validateModelData(req[r].input, CourseFields), nextId)
     IN IF ValidCourse(inputCourse)
        THEN /\ courses' = courses \cup {inputCourse}
             /\ nextId' = nextId + 1
             /\ req' = [req EXCEPT ![r] = Respond(@, "redirect /course/edit")]
        ELSE /\ req' = [req EXCEPT ![r] = Throw(@, "ValidationError")]
             /\ UNCHANGED <<courses, nextId>>
  /\ UNCHANGED <<faculty, semesters, jobs, grades, students, rows>>

\* ------------------------------------------------------ courseController.put
\* The handler proper.  After rendering the department error nothing returns,
\* so findOneAndUpdate is issued all the same.
CoursePut(r) ==
  /\ Free(r)
  /\ \E body \in CoursePutBodies, id \in Ids :
     LET input == validateModelData(WithId(body, id), CourseFields) IN
     req' = [req EXCEPT ![r] =
       IF allFieldsExist(input, CourseFields)
       THEN IF Len(input.department) # 4
            THEN Goto(Respond(Request("coursePut", "findOneAndUpdate", input),
                              "Please input four letter department code"),
                      "findOneAndUpdate")
            ELSE Request("coursePut", "findOneAndUpdate", input)
       ELSE Throw(Request("coursePut", "done", input), "RequiredParamNotFound")]
  /\ rows' = [rows EXCEPT ![r] = <<>>]
  /\ UNCHANGED <<stores, nextId>>

\* findOneAndUpdate({_id}, input) sets the fields of input on the document
\* (update validators are off by default) and its callback answers.  A
\* redirect on a response already rendered throws, which the catch turns into
\* a res.json call.
UpdateDoc(doc, input) ==
  [f \in DOMAIN doc |-> IF Present(input, f) THEN input[f] ELSE doc[f]]

\* findOneAndUpdate with the upsert option: a document is made of the input
\* when none has its _id.
CoursePutUpsert(r) ==
  /\ req[r].op = "coursePut" /\ req[r].pc = "findOneAndUpdate"
  /\ LET input == req[r].input
         result == findOne(courses, [_id |-> input._id])
     IN /\ courses' = (courses \ {result}) \cup
                         {NewDoc(CourseFields, input, input._id)}
        /\ req' = [req EXCEPT ![r] = Respond(@, "redirect /course/edit")]
  /\ UNCHANGED <<faculty, semesters, jobs, grades, students, nextId, rows>>

CoursePutUpdate(r) ==
  /\ req[r].op = "coursePut" /\ req[r].pc = "findOneAndUpdate"
  /\ LET input == req[r].input
         result == findOne(courses, [_id |-> input._id])
     IN IF result # Null
        THEN /\ courses' = (courses \ {result}) \cup {UpdateDoc(result, input)}
             /\ req' = [req EXCEPT ![r] =
                  IF @.res = <<>> THEN Respond(@, "redirect /course/edit")
                  ELSE Respond(Respond(@, "redirect /course/edit"), "json course.put")]
        ELSE /\ req' = [req EXCEPT ![r] = Respond(@, "json CourseNotFound")]
             /\ UNCHANGED courses
  /\ UNCHANGED <<faculty, semesters, jobs, grades, students, nextId, rows>>

\* --------------------------------------------------- courseController.delete
CourseDelete(r) ==
  /\ Free(r)
  /\ \E id \in Ids : req' = [req EXCEPT ![r] = Request("courseDelete", "studentFind", [_id |-> id])]
  /\ rows' = [rows EXCEPT ![r] = <<>>]
  /\ UNCHANGED <<stores, nextId>>

\* Student.find({courseHistory: {$elemMatch: {_id: id}}}): the students whose
\* courseHistory array holds a subdocument with that _id.  A document that
\* has no such array does not match.
ElemMatchId(doc, path, id) ==
  /\ path \in DOMAIN doc
  /\ \E e \in doc[path] : e._id = id

StudentsWithCourse(id) == {s \in students : ElemMatchId(s, "courseHistory", id)}

CourseDeleteStudents(r) ==
  /\ req[r].op = "courseDelete" /\ req[r].pc = "studentFind"
  /\ req' = [req EXCEPT ![r] =
       IF StudentsWithCourse(req[r].input._id) # {}
       THEN Respond(@, "Could not delete course because student is referencing it.")
       ELSE Goto(@, "jobFind")]
  /\ UNCHANGED <<stores, nextId, rows>>

\* The query with the wrong key: {_id: id} in place of {course: id}.
JobsWithId(id) == {j \in jobs : j._id = id}

\* Job.find({course: id})
JobsWithCourse(id) == {j \in jobs : j.course = id}

CourseDeleteJobs(r) ==
  /\ req[r].op = "courseDelete" /\ req[r].pc = "jobFind"
  /\ req' = [req EXCEPT ![r] =
       IF JobsWithCourse(req[r].input._id) # {}
       THEN Respond(@, "Could not delete course because job is referencing it.")
       ELSE Goto(@, "remove")]
  /\ UNCHANGED <<stores, nextId, rows>>

\* Course.findOneAndRemove({_id: id}); CourseNotFound is thrown inside a
\* callback with no catch behind it.
CourseDeleteRemove(r) ==
  /\ req[r].op = "courseDelete" /\ req[r].pc = "remove"
  /\ LET result == findOne(courses, req[r].input) IN
     IF result # Null
     THEN /\ courses' = courses \ {result}
          /\ req' = [req EXCEPT ![r] = Respond(@, "redirect /course")]
     ELSE /\ req' = [req EXCEPT ![r] = Throw(@, "CourseNotFound")]
          /\ UNCHANGED courses
  /\ UNCHANGED <<faculty, semesters, jobs, grades, students, nextId, rows>>

\* The handler without its test of position and supervisor.
JobPostUnchecked(r) ==
  /\ Free(r)
  /\ \E body \in JobBodies :
       req' = [req EXCEPT ![r] =
         Request("jobPost", "findOne", validateModelData(body, JobFields))]
  /\ rows' = [rows EXCEPT ![r] = <<>>]
  /\ UNCHANGED <<stores, nextId>>

\* -------------------------------------------------------- jobController.post
JobPost(r) ==
  /\ Free(r)
  /\ \E body \in JobBodies :
     LET input == validateModelData(body, JobFields) IN
     req' = [req EXCEPT ![r] =
       IF Present(input, "position") /\ Present(input, "supervisor")
       THEN Request("jobPost", "findOne", input)
       ELSE Respond(Request("jobPost", "done", input), "Required parameter not found")]
  /\ rows' = [rows EXCEPT ![r] = <<>>]
  /\ UNCHANGED <<stores, nextId>>

\* Job.findOne(input).populate("supervisor"): populate only decorates a
\* document that was found; a supervisor or course id that names no document
\* raises nothing.
JobPostFound(r) ==
  /\ req[r].op = "jobPost" /\ req[r].pc = "findOne"
  /\ req' = [req EXCEPT ![r] =
       IF findOne(jobs, req[r].input) # Null
       THEN Respond(@, "This job already exists.")
       ELSE Goto(@, "save")]
  /\ UNCHANGED <<stores, nextId, rows>>

JobPostSave(r) ==
  /\ req[r].op = "jobPost" /\ req[r].pc = "save"
  /\ nextId <= MaxId
  /\ LET inputJob == NewDoc(JobFields, validateModelData(req[r].input, JobFields), nextId)
     IN IF ValidJob(inputJob)
        THEN /\ jobs' = jobs \cup {inputJob}
             /\ nextId' = nextId + 1
             /\ req' = [req EXCEPT ![r] = Respond(@, "redirect /job/edit")]
        ELSE /\ req' = [req EXCEPT ![r] = Throw(@, "ValidationError")]
             /\ UNCHANGED <<jobs, nextId>>
  /\ UNCHANGED <<faculty, semesters, courses, grades, students, rows>>

\* --------------------------------------------------------- jobController.put
JobPut(r) ==
  /\ Free(r)
  /\ \E body \in JobPutBodies, id \in Ids :
     LET input == validateModelData(WithId(body, id), JobFields) IN
     req' = [req EXCEPT ![r] =
       IF Present(input, "position") /\ Present(input, "supervisor") /\ Present(input, "_id")
       THEN Request("jobPut", "findOneAndUpdate", input)
       ELSE Throw(Request("jobPut", "done", input), "RequiredParamNotFound")]
  /\ rows' = [rows EXCEPT ![r] = <<>>]
  /\ UNCHANGED <<stores, nextId>>

JobPutUpdate(r) ==
  /\ req[r].op = "jobPut" /\ req[r].pc = "findOneAndUpdate"
  /\ LET input == req[r].input
         result == findOne(jobs, [_id |-> input._id])
     IN IF result # Null
        THEN /\ jobs' = (jobs \ {result}) \cup {UpdateDoc(result, input)}
             /\ req' = [req EXCEPT ![r] = Respond(@, "redirect /job/edit")]
        ELSE /\ req' = [req EXCEPT ![r] = Respond(@, "json JobNotFound")]
             /\ UNCHANGED jobs
  /\ UNCHANGED <<faculty, semesters, courses, grades, students, nextId, rows>>

\* ------------------------------------------------------ jobController.delete
JobDelete(r) ==
  /\ Free(r)
  /\ \E id \in Ids : req' = [req EXCEPT ![r] = Request("jobDelete", "studentFind", [_id |-> id])]
  /\ rows' = [rows EXCEPT ![r] = <<>>]
  /\ UNCHANGED <<stores, nextId>>

Range(seq) == {seq[i] : i \in 1..Len(seq)}

\* The query with the wrong key: {_id: id} in place of {jobHistory: id}.
StudentsWithId(id) == {s \in students : s._id = id}

\* Student.find({jobHistory: id}): the students whose jobHistory array holds id.
StudentsWithJob(id) == {s \in students : id \in Range(s.jobHistory)}

JobDeleteStudents(r) ==
  /\ req[r].op = "jobDelete" /\ req[r].pc = "studentFind"
  /\ req' = [req EXCEPT ![r] =
       IF StudentsWithJob(req[r].input._id) # {}
       THEN Respond(@, "Could not delete job because a student is referencing it.")
       ELSE Goto(@, "remove")]
  /\ UNCHANGED <<stores, nextId, rows>>

\* findOneAndRemove with a filter key the schema does not declare: strict
\* queries drop the key, the filter is empty and the first Job goes.
JobDeleteRemoveFirst(r) ==
  /\ req[r].op = "jobDelete" /\ req[r].pc = "remove"
  /\ LET result == FirstOf(jobs) IN
     IF result # Null
     THEN /\ jobs' = jobs \ {result}
          /\ req' = [req EXCEPT ![r] = Respond(@, "redirect /job")]
     ELSE /\ req' = [req EXCEPT ![r] = Throw(@, "JobNotFound")]
          /\ UNCHANGED jobs
  /\ UNCHANGED <<faculty, semesters, courses, grades, students, nextId, rows>>

JobDeleteRemove(r) ==
  /\ req[r].op = "jobDelete" /\ req[r].pc = "remove"
  /\ LET result == findOne(jobs, req[r].input) IN
     IF result # Null
     THEN /\ jobs' = jobs \ {result}
          /\ req' = [req EXCEPT ![r] = Respond(@, "redirect /job")]
     ELSE /\ req' = [req EXCEPT ![r] = Throw(@, "JobNotFound")]
          /\ UNCHANGED jobs
  /\ UNCHANGED <<faculty, semesters, courses, grades, students, nextId, rows>>

\* ------------------------------------------------------------- row chains
\* One promise chain dispatched by a forEach: pc is the callback that runs
\* next, element the object the callbacks fill in, cells the text of the
\* reference columns, onyen and jobId the arguments of pushStudentJob, err the
\* row-level error the chain rendered ("" if none).
Chain(pc, element, cells, onyen, jobId) ==
  [pc |-> pc, element |-> element, cells |-> cells, onyen |-> onyen,
   jobId |-> jobId, err |-> ""]

Hole == Chain("hole", Null, Null, "", 0)

At(r, i, pc) == i \in 1..Len(rows[r]) /\ rows[r][i].pc = pc

\* The chain moves on, or ends with a row-level error rendered on res.
Step(r, i, chain) ==
  \E ch \in {chain} :
    /\ rows' = [rows EXCEPT ![r][i] = ch]
    /\ req' = IF ch.err # "" THEN [req EXCEPT ![r] = Call(@, ch.err)] ELSE req

Fail(chain, msg) == [chain EXCEPT !.pc = "done", !.err = msg]

\* ----------------------------------------------------------- pushStudentJob
\* $addToSet on the jobHistory array.
AddToSet(hist, id) == IF id \in Range(hist) THEN hist ELSE Append(hist, id)

\* $pull on the jobHistory array: every occurrence goes.
Pull(hist, id) == SelectSeq(hist, LAMBDA x : x # id)

\* Student.findOne({onyen}) and its callback: reject on null (the caller's
\* catch renders), otherwise the update is issued and the promise resolved.
PushStudentJobFind(r, i) ==
  /\ At(r, i, "pushFind")
  /\ LET ch == rows[r][i]
         result == findOne(students, [onyen |-> ch.onyen])
     IN Step(r, i, IF result # Null THEN [ch EXCEPT !.pc = "pushUpdate"]
                   ELSE Fail(ch, IF req[r].op = "jobAssign" THEN "Student not found"
                                 ELSE "did not save job because student was not found."))
  /\ UNCHANGED <<stores, nextId>>

\* Student.update({onyen}, {$addToSet: {jobHistory: jobId}}): the first
\* student with that onyen, if there still is one.
PushStudentJobUpdate(r, i) ==
  /\ At(r, i, "pushUpdate")
  /\ LET ch == rows[r][i]
         result == findOne(students, [onyen |-> ch.onyen])
     IN /\ students' =
             IF result = Null THEN students
             ELSE (students \ {result}) \cup
                  {[result EXCEPT !.jobHistory = AddToSet(@, ch.jobId)]}
        /\ rows' = [rows EXCEPT ![r][i].pc = "done"]
  /\ UNCHANGED <<faculty, semesters, courses, jobs, grades, nextId, req>>

\* ------------------------------------------------------ jobController.assign
\* studs is input.students as an array (a single string is wrapped into one);
\* the empty array stands for a body without students.
JobAssign(r) ==
  /\ Free(r)
  /\ \E jobId \in Ids, studs \in AssignBodies :
     req' = [req EXCEPT ![r] =
       IF jobId # 0 /\ studs # <<>>
       THEN Request("jobAssign", "jobFind", [_id |-> jobId, students |-> studs])
       ELSE Respond(Request("jobAssign", "done", [_id |-> jobId, students |-> studs]),
                    "Required parameter not found")]
  /\ rows' = [rows EXCEPT ![r] = <<>>]
  /\ UNCHANGED <<stores, nextId>>

\* The callback of Job.findOne: one chain per student, then the redirect.
JobAssignFound(r) ==
  /\ req[r].op = "jobAssign" /\ req[r].pc = "jobFind"
  /\ LET input == req[r].input IN
     IF findOne(jobs, [_id |-> input._id]) # Null
     THEN /\ rows' = [rows EXCEPT ![r] =
               [k \in 1..Len(input.students) |->
                  Chain("studentFind", [_id |-> input.students[k]], Null, "", input._id)]]
          /\ req' = [req EXCEPT ![r] = Respond(@, "redirect /job/assign")]
     ELSE /\ req' = [req EXCEPT ![r] = Respond(@, "Job not found")]
          /\ UNCHANGED rows
  /\ UNCHANGED <<stores, nextId>>

\* The callback of Student.findOne({_id: student}).
JobAssignStudent(r, i) ==
  /\ At(r, i, "studentFind")
  /\ LET ch == rows[r][i]
         result == findOne(students, ch.element)
     IN Step(r, i, IF result # Null
                   THEN [ch EXCEPT !.pc = "pushFind", !.onyen = result.onyen]
                   ELSE Fail(ch, "Student not found"))
  /\ UNCHANGED <<stores, nextId>>

\* ---------------------------------------------------- jobController.unAssign
JobUnAssign(r) ==
  /\ Free(r)
  /\ \E studentId \in StudentRefs, jobId \in Ids :
     req' = [req EXCEPT ![r] =
       IF studentId # 0 /\ jobId # 0
       THEN Request("jobUnAssign", "pull", [_id |-> studentId, jobId |-> jobId])
       ELSE Respond(Request("jobUnAssign", "done", [_id |-> studentId, jobId |-> jobId]),
                    "Either student Id or job id is missing.")]
  /\ rows' = [rows EXCEPT ![r] = <<>>]
  /\ UNCHANGED <<stores, nextId>>

\* Student.update({_id}, {$pull: {jobHistory: jobId}}) and its callback.
JobUnAssignPull(r) ==
  /\ req[r].op = "jobUnAssign" /\ req[r].pc = "pull"
  /\ LET result == findOne(students, [_id |-> req[r].input._id]) IN
     students' =
       IF result = Null THEN students
       ELSE (students \ {result}) \cup
            {[result EXCEPT !.jobHistory = Pull(@, req[r].input.jobId)]}
  /\ req' = [req EXCEPT ![r] = Respond(@, "redirect /job/assign")]
  /\ UNCHANGED <<faculty, semesters, courses, jobs, grades, nextId, rows>>

\* ------------------------------------------------------------- the sheet
\* The cell loop: data[row] exists for the rows that hold a cell, data[0]
\* never does; data is as long as the last such row.  (Index k of the array
\* is element k + 1 of the sequence.)
LastRow(sheet) ==
  IF \E i \in 1..Len(sheet) : sheet[i] # NoRow
  THEN CHOOSE i \in 1..Len(sheet) :
         sheet[i] # NoRow /\ \A j \in (i + 1)..Len(sheet) : sheet[j] = NoRow
  ELSE 0

SheetData(sheet) ==
  IF LastRow(sheet) = 0 THEN <<>>
  ELSE <<NoRow>> \o SubSeq(sheet, 1, LastRow(sheet))

\* data.shift(): the first index goes, element or hole alike.
Shift(data) == IF data = <<>> THEN <<>> ELSE Tail(data)

\* What forEach walks over (it skips the holes).
UploadData(sheet) == Shift(Shift(SheetData(sheet)))

\* The renders the forEach makes itself, in row order.
RECURSIVE SyncErrors(_)
SyncErrors(chains) ==
  IF chains = <<>> THEN <<>>
  ELSE (IF Head(chains).err # "" THEN <<Head(chains).err>> ELSE <<>>)
       \o SyncErrors(Tail(chains))

\* An upload that would answer only when its chains are over: res.redirect
\* is not called by the handler.
DispatchAwaiting(r, op, sheet, chains) ==
  /\ rows' = [rows EXCEPT ![r] = chains]
  /\ req' = [req EXCEPT ![r] =
       [op |-> op, pc |-> "done", input |-> [sheet |-> sheet],
        res |-> SyncErrors(chains), thrown |-> ""]]
  /\ UNCHANGED <<stores, nextId>>

\* The handler of an upload: every row is dispatched, then res.redirect is
\* called, whatever the rows rendered before.
Dispatch(r, op, sheet, chains) ==
  /\ rows' = [rows EXCEPT ![r] = chains]
  /\ req' = [req EXCEPT ![r] =
       [op |-> op, pc |-> "done", input |-> [sheet |-> sheet],
        res |-> SyncErrors(chains) \o <<"redirect /upload">>, thrown |-> ""]]
  /\ UNCHANGED <<stores, nextId>>

\* Faculty.findOne({lastName: RegExp(name[0], "i"), firstName: RegExp(name[1], "i")})
\* for name = text.split(/\s*,\s*/).
FacultyByName(text) ==
  Once(SplitComma(text), LAMBDA facultyName :
  FirstOf({f \in faculty :
             /\ RegExpTestI(PatternAt(facultyName, 0), f.lastName)
             /\ RegExpTestI(PatternAt(facultyName, 1), f.firstName)}))

\* Semester.findOne({season: semester[0].toUpperCase(), year: parseInt(semester[1])})
SemesterByParts(semester) ==
  Once(semester, LAMBDA parts :
  FirstOf({m \in semesters :
             /\ m.season = toUpperCase(parts[1])
             /\ m.year = ParseIntAt(parts, 1)}))

\* ---------------------------------------------------- courseController.upload
\* The category cell taken as it is.
CategoryKept(c) == c

\* The switch on element.category.
NormalizeCategory(c) ==
  CASE c \in {"t", "T"} -> "Theory"
    [] c \in {"s", "S"} -> "Systems"
    [] c \in {"a", "A", "applications", "Applications"} -> "Appls"
    [] OTHER -> c

CourseRowChain(row) ==
  IF row = NoRow THEN Hole
  ELSE LET ch == Chain("facultyFind",
                       [department |-> row.department, number |-> row.number,
                        category |-> row.category, faculty |-> 0, semester |-> 0],
                       [facultyText |-> row.facultyText, semesterText |-> row.semesterText],
                       "", 0)
       IN IF allFieldsExist(row, CourseCells) THEN ch
          ELSE Fail(ch, "did not save because it is missing a field.")

\* The handler, for an uploaded sheet whose data rows come out of body.
CourseUploadOf(r, body) ==
  /\ Free(r)
  /\ \E sheet \in Sheets(CourseHeader, body) :
       Dispatch(r, "courseUpload", sheet,
                [k \in 1..Len(UploadData(sheet)) |-> CourseRowChain(UploadData(sheet)[k])])

CourseUpload(r) == CourseUploadOf(r, CourseRows)

\* The callback whose failure takes the batch down: on a null result every
\* chain of the import is over, not only this one.
UploadFacultyAborting(r, i) ==
  /\ req[r].op \in {"courseUpload", "jobUpload"}
  /\ At(r, i, "facultyFind")
  /\ LET ch == rows[r][i]
         result == FacultyByName(ch.cells.facultyText)
         ref == IF req[r].op = "courseUpload" THEN "faculty" ELSE "supervisor"
     IN IF result # Null
        THEN Step(r, i, [ch EXCEPT !.pc = "semesterFind", !.element[ref] = result._id])
        ELSE /\ rows' = [rows EXCEPT ![r] =
                  [k \in 1..Len(rows[r]) |->
                     IF rows[r][k].pc = "hole" THEN rows[r][k]
                     ELSE [rows[r][k] EXCEPT !.pc = "died"]]]
             /\ req' = [req EXCEPT ![r] =
                  Call(@, "did not save because the faculty is incorrect.")]
  /\ UNCHANGED <<stores, nextId>>

\* The callback without its else branch: the chain goes on with no faculty.
UploadFacultyUnchecked(r, i) ==
  /\ req[r].op \in {"courseUpload", "jobUpload"}
  /\ At(r, i, "facultyFind")
  /\ Step(r, i, [rows[r][i] EXCEPT !.pc = "semesterFind"])
  /\ UNCHANGED <<stores, nextId>>

\* The callback of Faculty.findOne (the same in both uploads).
UploadFaculty(r, i) ==
  /\ req[r].op \in {"courseUpload", "jobUpload"}
  /\ At(r, i, "facultyFind")
  /\ LET ch == rows[r][i]
         result == FacultyByName(ch.cells.facultyText)
         ref == IF req[r].op = "courseUpload" THEN "faculty" ELSE "supervisor"
     IN Step(r, i, IF result # Null
                   THEN [ch EXCEPT !.pc = "semesterFind", !.element[ref] = result._id]
                   ELSE Fail(ch, "did not save because the faculty is incorrect."))
  /\ UNCHANGED <<stores, nextId>>

\* The semester text is split with the comma expression of the faculty name.
\* A year that parses to NaN makes the query fail to cast: the promise is
\* rejected and the chain has no catch.
CourseUploadSemester(r, i) ==
  /\ req[r].op = "courseUpload"
  /\ At(r, i, "semesterFind")
  /\ LET ch == rows[r][i]
         semester == SplitComma(ch.cells.semesterText)
         result == SemesterByParts(semester)
     IN Step(r, i,
          IF ParseIntAt(semester, 1) = NaN THEN [ch EXCEPT !.pc = "died"]
          ELSE IF result # Null
          THEN [ch EXCEPT !.pc = "courseFind", !.element.semester = result._id,
                          !.element.category = NormalizeCategory(@)]
          ELSE Fail(ch, "did not save because the semester is incorrect."))
  /\ UNCHANGED <<stores, nextId>>

\* The callback of Course.findOne(element).
CourseUploadFound(r, i) ==
  /\ req[r].op = "courseUpload"
  /\ At(r, i, "courseFind")
  /\ LET ch == rows[r][i] IN
     Step(r, i, IF findOne(courses, ch.element) = Null
                THEN [ch EXCEPT !.pc = "save"]
                ELSE [ch EXCEPT !.pc = "done"])
  /\ UNCHANGED <<stores, nextId>>

\* new schema.Course(element).save(), with its catch.
CourseUploadSave(r, i) ==
  /\ req[r].op = "courseUpload"
  /\ At(r, i, "save")
  /\ nextId <= MaxId
  /\ LET ch == rows[r][i]
         inputCourse == NewDoc(CourseFields, ch.element, nextId)
     IN IF ValidCourse(inputCourse)
        THEN /\ courses' = courses \cup {inputCourse}
             /\ nextId' = nextId + 1
             /\ Step(r, i, [ch EXCEPT !.pc = "done"])
        ELSE /\ Step(r, i, Fail(ch, "did not save because something is wrong with it."))
             /\ UNCHANGED <<courses, nextId>>
  /\ UNCHANGED <<faculty, semesters, jobs, grades, students>>

\* ------------------------------------------------------- jobController.upload
JobRowChain(row) ==
  IF row = NoRow THEN Hole
  ELSE LET ch == Chain("facultyFind",
                       [onyen |-> row.onyen, position |-> row.position,
                        supervisor |-> 0, semester |-> 0, course |-> 0],
                       [facultyText |-> row.supervisorText,
                        semesterText |-> row.semesterText,
                        courseText |-> row.courseText],
                       row.onyen, 0)
       IN IF /\ Present(row, "position")
             /\ Present(row, "supervisorText")
             /\ Present(row, "semesterText")
          THEN ch
          ELSE Fail(ch, "did not save because it is missing a field.")

JobUpload(r) ==
  /\ Free(r)
  /\ \E sheet \in Sheets(JobHeader, JobRows) :
       Dispatch(r, "jobUpload", sheet,
                [k \in 1..Len(UploadData(sheet)) |-> JobRowChain(UploadData(sheet)[k])])

\* The callback of Semester.findOne; the text is split on blanks here.  With
\* a course cell the callback goes on to element.course.split(reg), and reg
\* is declared nowhere: a ReferenceError inside a callback with no catch.
JobUploadSemester(r, i) ==
  /\ req[r].op = "jobUpload"
  /\ At(r, i, "semesterFind")
  /\ LET ch == rows[r][i]
         semester == SplitSpace(ch.cells.semesterText)
         result == SemesterByParts(semester)
     IN Step(r, i,
          IF ParseIntAt(semester, 1) = NaN THEN [ch EXCEPT !.pc = "died"]
          ELSE IF result = Null
          THEN Fail(ch, "did not save because the semester is incorrect.")
          ELSE IF Present(ch.cells, "courseText") THEN [ch EXCEPT !.pc = "died"]
          ELSE [ch EXCEPT !.pc = "jobFind", !.element.semester = result._id,
                          !.element.position = toUpperCase(@)])
  /\ UNCHANGED <<stores, nextId>>

\* The callback of Job.findOne(util.validateModelData(element, schema.Job)).
JobUploadFound(r, i) ==
  /\ req[r].op = "jobUpload"
  /\ At(r, i, "jobFind")
  /\ LET ch == rows[r][i]
         result == findOne(jobs, validateModelData(ch.element, JobFields))
     IN Step(r, i, IF result = Null
                   THEN [ch EXCEPT !.pc = "save"]
                   ELSE [ch EXCEPT !.pc = "pushFind", !.jobId = result._id])
  /\ UNCHANGED <<stores, nextId>>

\* new schema.Job(element).save(), with its catch; then pushStudentJob.
JobUploadSave(r, i) ==
  /\ req[r].op = "jobUpload"
  /\ At(r, i, "save")
  /\ nextId <= MaxId
  /\ LET ch == rows[r][i]
         inputJob == NewDoc(JobFields, ch.element, nextId)
     IN IF ValidJob(inputJob)
        THEN /\ jobs' = jobs \cup {inputJob}
             /\ nextId' = nextId + 1
             /\ Step(r, i, [ch EXCEPT !.pc = "pushFind", !.jobId = nextId])
        ELSE /\ Step(r, i, Fail(ch, "did not save because something is wrong with it"))
             /\ UNCHANGED <<jobs, nextId>>
  /\ UNCHANGED <<faculty, semesters, courses, grades, students>>

\* ------------------------------------------------------------ specifications
\* The administrator sends the next request when the last one is over.
CourseRequest ==
  \/ CoursePost(1)
  \/ CoursePut(1)
  \/ CourseDelete(1)

CourseStep ==
  \/ CoursePostFound(1)
  \/ CoursePostSave(1)
  \/ CoursePutUpdate(1)
  \/ CourseDeleteStudents(1)
  \/ CourseDeleteJobs(1)
  \/ CourseDeleteRemove(1)

CourseImport ==
  \/ CourseUpload(1)
  \/ \E i \in 1..MaxRow : UploadFaculty(1, i)
  \/ \E i \in 1..MaxRow : CourseUploadSemester(1, i)
  \/ \E i \in 1..MaxRow : CourseUploadFound(1, i)
  \/ \E i \in 1..MaxRow : CourseUploadSave(1, i)

JobRequest ==
  \/ JobPost(1)
  \/ JobPut(1)
  \/ JobDelete(1)
  \/ JobAssign(1)
  \/ JobUnAssign(1)

JobStep ==
  \/ JobPostFound(1)
  \/ JobPostSave(1)
  \/ JobPutUpdate(1)
  \/ JobDeleteStudents(1)
  \/ JobDeleteRemove(1)
  \/ JobAssignFound(1)
  \/ JobUnAssignPull(1)
  \/ \E i \in 1..MaxRow : JobAssignStudent(1, i)
  \/ \E i \in 1..MaxRow : PushStudentJobFind(1, i)
  \/ \E i \in 1..MaxRow : PushStudentJobUpdate(1, i)

JobImport ==
  \/ JobUpload(1)
  \/ \E i \in 1..MaxRow : UploadFaculty(1, i)
  \/ \E i \in 1..MaxRow : JobUploadSemester(1, i)
  \/ \E i \in 1..MaxRow : JobUploadFound(1, i)
  \/ \E i \in 1..MaxRow : JobUploadSave(1, i)
  \/ \E i \in 1..MaxRow : PushStudentJobFind(1, i)
  \/ \E i \in 1..MaxRow : PushStudentJobUpdate(1, i)

\* The single-record requests of both controllers.
Next == CourseRequest \/ CourseStep \/ JobRequest \/ JobStep \/ Finish(1)

Spec == Init /\ [][Next]_vars

\* The course controller alone, its bulk import included.
NextCourse == CourseRequest \/ CourseStep \/ CourseImport \/ Finish(1)

SpecCourse == Init /\ [][NextCourse]_vars

\* The job import, with the requests that take a job away again.
NextJobImport ==
  \/ JobImport
  \/ JobDelete(1)
  \/ JobDeleteStudents(1)
  \/ JobDeleteRemove(1)
  \/ JobUnAssign(1)
  \/ JobUnAssignPull(1)
  \/ Finish(1)

SpecJobImport == Init /\ [][NextJobImport]_vars

\* The deletes, with the requests that make and unmake what blocks them: a
\* Job created (with or without a course), assigned and unassigned.
NextDelete ==
  \/ CourseDelete(1)
  \/ CourseDeleteStudents(1)
  \/ CourseDeleteJobs(1)
  \/ CourseDeleteRemove(1)
  \/ JobDelete(1)
  \/ JobDeleteStudents(1)
  \/ JobDeleteRemove(1)
  \/ JobPost(1)
  \/ JobPostFound(1)
  \/ JobPostSave(1)
  \/ JobAssign(1)
  \/ JobAssignFound(1)
  \/ JobUnAssign(1)
  \/ JobUnAssignPull(1)
  \/ \E i \in 1..MaxRow : JobAssignStudent(1, i)
  \/ \E i \in 1..MaxRow : PushStudentJobFind(1, i)
  \/ \E i \in 1..MaxRow : PushStudentJobUpdate(1, i)
  \/ Finish(1)

SpecDelete == Init /\ [][NextDelete]_vars

\* The creates of both controllers, with the Course update that changes what
\* a later create is compared with.
NextCreate ==
  \/ CoursePost(1)
  \/ CoursePostFound(1)
  \/ CoursePostSave(1)
  \/ CoursePut(1)
  \/ CoursePutUpdate(1)
  \/ JobPost(1)
  \/ JobPostFound(1)
  \/ JobPostSave(1)
  \/ Finish(1)

SpecCreate == Init /\ [][NextCreate]_vars

\* The updates of both controllers, with the creates that give them records
\* to find.
NextUpdate ==
  \/ CoursePut(1)
  \/ CoursePutUpdate(1)
  \/ JobPut(1)
  \/ JobPutUpdate(1)
  \/ CoursePost(1)
  \/ CoursePostFound(1)
  \/ CoursePostSave(1)
  \/ JobPost(1)
  \/ JobPostFound(1)
  \/ JobPostSave(1)
  \/ Finish(1)

SpecUpdate == Init /\ [][NextUpdate]_vars

\* Two sessions at once: one assigns and unassigns students, the other
\* deletes jobs; their database calls interleave in any order.
NextConcurrent ==
  \/ JobAssign(1)
  \/ JobAssignFound(1)
  \/ \E i \in 1..MaxRow : JobAssignStudent(1, i)
  \/ \E i \in 1..MaxRow : PushStudentJobFind(1, i)
  \/ \E i \in 1..MaxRow : PushStudentJobUpdate(1, i)
  \/ JobUnAssign(1)
  \/ JobUnAssignPull(1)
  \/ Finish(1)
  \/ JobDelete(2)
  \/ JobDeleteStudents(2)
  \/ JobDeleteRemove(2)
  \/ Finish(2)

SpecConcurrent == Init /\ [][NextConcurrent]_vars

\* The course import of rows of every category spelling.
NextCategory ==
  \/ CourseUploadOf(1, CategoryRows)
  \/ \E i \in 1..MaxRow : UploadFaculty(1, i)
  \/ \E i \in 1..MaxRow : CourseUploadSemester(1, i)
  \/ \E i \in 1..MaxRow : CourseUploadFound(1, i)
  \/ \E i \in 1..MaxRow : CourseUploadSave(1, i)
  \/ Finish(1)

SpecCategory == Init /\ [][NextCategory]_vars

\* The course import alone.
NextCourseImport == CourseImport \/ Finish(1)

SpecCourseImport == Init /\ [][NextCourseImport]_vars

\* Both imports, with the scheduling of the event loop: a callback whose
\* query has been issued runs in the end, whatever the other chains do.
NextImport == CourseImport \/ JobImport \/ Finish(1)

ChainStep(i) ==
  \/ UploadFaculty(1, i)
  \/ CourseUploadSemester(1, i)
  \/ CourseUploadFound(1, i)
  \/ CourseUploadSave(1, i)
  \/ JobUploadSemester(1, i)
  \/ JobUploadFound(1, i)
  \/ JobUploadSave(1, i)
  \/ PushStudentJobFind(1, i)
  \/ PushStudentJobUpdate(1, i)

SpecImportFair ==
  Init /\ [][NextImport]_vars /\ \A i \in 1..MaxRow : WF_vars(ChainStep(i))

\* ------------------------------------------------------------------ claims
HasJob(s, id) == \E k \in 1..Len(s.jobHistory) : s.jobHistory[k] = id

JobRefused == <<"Could not delete job because a student is referencing it.">>

\* C1: when jobController.delete runs its student check and some Student's
\* jobHistory holds the job's id, the handler ends there: the jobs are what
\* they were (the Job, if stored, is still stored) and the one answer is
\* 'Could not delete job because a student is referencing it.'
C1_JobDeleteRefused ==
  [][ ( /\ req[1].op = "jobDelete"
        /\ req[1].pc = "studentFind"
        /\ \E s \in students : HasJob(s, req[1].input._id) )
      => ( /\ jobs' = jobs
           /\ req'[1].pc = "done"
           /\ req'[1].thrown = ""
           /\ req'[1].res = JobRefused ) ]_vars

\* A delete of a stored Job, refused while a Student holds it.
C1_RefusedWithJobStored ==
  /\ req[1].op = "jobDelete"
  /\ req[1].res = JobRefused
  /\ \E j \in jobs : j._id = req[1].input._id
  /\ \E s \in students : HasJob(s, req[1].input._id)

CourseRefusedByJob == <<"Could not delete course because job is referencing it.">>

\* C2: when courseController.delete gets past its student check and some
\* Job's course field is the course's id, the handler ends there: the courses
\* are what they were and the one answer says a job is referencing it.
C2_CourseDeleteRefusedByJob ==
  [][ ( /\ req[1].op = "courseDelete"
        /\ req[1].pc = "jobFind"
        /\ \E j \in jobs : j.course = req[1].input._id )
      => ( /\ courses' = courses
           /\ req'[1].pc = "done"
           /\ req'[1].thrown = ""
           /\ req'[1].res = CourseRefusedByJob ) ]_vars

\* A delete of a stored Course, refused while a Job names it.
C2_RefusedWithCourseStored ==
  /\ req[1].op = "courseDelete"
  /\ req[1].res = CourseRefusedByJob
  /\ \E c \in courses : c._id = req[1].input._id
  /\ \E j \in jobs : j.course = req[1].input._id

\* A Student references course id through its grades list: the list holds
\* the id of a Grade whose course is id.
GradeRef(id) == \E s \in students : \E g \in grades : g._id \in s.grades /\ g.course = id

CourseRefusedByStudent == <<"Could not delete course because student is referencing it.">>

Stored(coll, id) == \E d \in coll : d._id = id

\* C3: while a Student's grades list references the course, a step of
\* courseController.delete never removes the Course, and the handler ends
\* with no answer but that a student is referencing it.
C3_CourseDeleteRefusedByStudent ==
  [][ ( /\ req[1].op = "courseDelete"
        /\ req[1].pc # "done"
        /\ GradeRef(req[1].input._id) )
      => ( /\ Stored(courses, req[1].input._id) => Stored(courses', req[1].input._id)
           /\ req'[1].pc = "done" => req'[1].res = CourseRefusedByStudent ) ]_vars

\* The Course is gone although a Student's Grade still names it.
C3_RemovedWhileGraded ==
  /\ req[1].op = "courseDelete"
  /\ req[1].res = <<"redirect /course">>
  /\ GradeRef(req[1].input._id)
  /\ ~Stored(courses, req[1].input._id)

Without(coll, id) == {d \in coll : d._id # id}

\* C4: a delete of a stored Job no Student's jobHistory holds, and a delete
\* of a stored Course no Student's grade and no Job names, passes its checks
\* with the store untouched, and its last step removes that one record,
\* leaves every other Job, Course and Student as it was and answers with the
\* redirect alone.
C4_DeleteRemovesExactlyOne ==
  [][ /\ ( /\ req[1].op = "jobDelete"
           /\ req[1].pc # "done"
           /\ Stored(jobs, req[1].input._id)
           /\ ~\E s \in students : HasJob(s, req[1].input._id) )
         => IF req[1].pc = "remove"
            THEN /\ jobs' = Without(jobs, req[1].input._id)
                 /\ Cardinality(jobs') = Cardinality(jobs) - 1
                 /\ courses' = courses /\ students' = students
                 /\ req'[1].pc = "done" /\ req'[1].thrown = ""
                 /\ req'[1].res = <<"redirect /job">>
            ELSE /\ req'[1].pc = "remove"
                 /\ req'[1].res = <<>>
                 /\ stores' = stores
      /\ ( /\ req[1].op = "courseDelete"
           /\ req[1].pc # "done"
           /\ Stored(courses, req[1].input._id)
           /\ ~GradeRef(req[1].input._id)
           /\ ~\E j \in jobs : j.course = req[1].input._id )
         => IF req[1].pc = "remove"
            THEN /\ courses' = Without(courses, req[1].input._id)
                 /\ Cardinality(courses') = Cardinality(courses) - 1
                 /\ jobs' = jobs /\ students' = students
                 /\ req'[1].pc = "done" /\ req'[1].thrown = ""
                 /\ req'[1].res = <<"redirect /course">>
            ELSE /\ req'[1].pc \in {"jobFind", "remove"}
                 /\ req'[1].res = <<>>
                 /\ stores' = stores ]_vars

\* A Job was removed and answered with the redirect while other records
\* are stored.
C4_JobRemovedOthersStored ==
  /\ req[1].op = "jobDelete"
  /\ req[1].res = <<"redirect /job">>
  /\ ~Stored(jobs, req[1].input._id)
  /\ jobs # {} /\ courses # {} /\ students # {}

\* The fields a create insists on: courseController.post every declared
\* field, jobController.post position and supervisor.
LacksRequired(rq) ==
  \/ rq.op = "coursePost" /\ \E f \in CourseFields : ~Present(rq.input, f)
  \/ rq.op = "jobPost" /\ \E f \in {"position", "supervisor"} : ~Present(rq.input, f)

\* C5: a create whose input lacks a required field is over when the handler
\* returns, rejected (the handler threw, or rendered 'Required parameter
\* not found'), and no step taken for it changes the Courses or the Jobs.
C5_MissingFieldRejected ==
  [][ LacksRequired(req'[1])
      => ( /\ courses' = courses
           /\ jobs' = jobs
           /\ req'[1].pc = "done"
           /\ \/ req'[1].thrown # "" /\ req'[1].res = <<>>
              \/ req'[1].thrown = "" /\ req'[1].res = <<"Required parameter not found">> ) ]_vars

\* A Job create without its supervisor was rejected.
C5_JobWithoutSupervisorRejected ==
  /\ req[1].op = "jobPost"
  /\ ~Present(req[1].input, "supervisor")
  /\ req[1].res = <<"Required parameter not found">>


AllPresent(input, fields) == \A f \in fields : Present(input, f)

ShortDepartment == <<"Please input four letter department code">>

\* C6: a courseController.post whose department code has not four letters
\* (every field being there) persists no Course and ends with no answer but
\* 'Please input four letter department code', whatever is stored.
C6_ShortDepartmentRejected ==
  [][ ( /\ req[1].op = "coursePost"
        /\ req[1].pc # "done"
        /\ AllPresent(req[1].input, CourseFields)
        /\ Len(req[1].input.department) # 4 )
      => ( /\ courses' = courses
           /\ req'[1].pc = "done" => (req'[1].res = ShortDepartment /\ req'[1].thrown = "") ) ]_vars

\* A create with a two-letter department answered as a duplicate.
C6_ShortDepartmentDuplicate ==
  /\ req[1].op = "coursePost"
  /\ Len(req[1].input.department) # 4
  /\ AllPresent(req[1].input, CourseFields)
  /\ req[1].res = <<"This course already exists.">>

\* C7: every stored Course has a department code of exactly four letters.
C7_DepartmentLengthFour == \A c \in courses : Len(c.department) = 4

\* An update was answered with the department error and stored the code.
C7_ShortDepartmentStored ==
  /\ req[1].op = "coursePut"
  /\ Len(req[1].res) > 0
  /\ req[1].res[1] = "Please input four letter department code"
  /\ \E c \in courses : c._id = req[1].input._id /\ Len(c.department) # 4

IsCreate(rq) == rq.op \in {"coursePost", "jobPost"}

\* The collection a create writes to, and the one it must leave alone.
Target(rq, cs, js) == IF rq.op = "coursePost" THEN cs ELSE js

Other(rq, cs, js) == IF rq.op = "coursePost" THEN js ELSE cs

\* A stored record equals the input in every field the input submits.
SubmittedMatch(coll, input) ==
  \E d \in coll : \A f \in DOMAIN input : Present(input, f) => d[f] = input[f]

\* The department has four letters and the enum field holds an enum value.
WellFormed(rq) ==
  IF rq.op = "coursePost"
  THEN Len(rq.input.department) = 4 /\ rq.input.category \in CategoryEnum
  ELSE rq.input.position \in PositionEnum

Duplicate(rq) ==
  IF rq.op = "coursePost" THEN <<"This course already exists.">>
  ELSE <<"This job already exists.">>

Created(rq) ==
  IF rq.op = "coursePost" THEN <<"redirect /course/edit">> ELSE <<"redirect /job/edit">>

\* The new collection is the old one and one more record, under a fresh id,
\* with the fields of the input.
OneMore(old, new, input) ==
  /\ Cardinality(new) = Cardinality(old) + 1
  /\ old \subseteq new
  /\ \A d \in new \ old :
       /\ ~Stored(old, d._id)
       /\ \A f \in DOMAIN input : Present(input, f) => d[f] = input[f]

\* A step of a create that got past the required fields: a match on every
\* submitted field is answered as a duplicate and nothing is stored; without
\* a match, and if wellFormed lets the input through, the save follows and
\* stores exactly one new record.
CreateStep(wellFormed(_)) ==
  IsCreate(req[1]) =>
      LET rq == req[1]
          coll == Target(rq, courses, jobs)
      IN /\ rq.pc = "findOne" /\ SubmittedMatch(coll, rq.input)
            => ( /\ stores' = stores
                 /\ req'[1].pc = "done"
                 /\ req'[1].res = Duplicate(rq) )
         /\ rq.pc = "findOne" /\ ~SubmittedMatch(coll, rq.input) /\ wellFormed(rq)
            => ( /\ stores' = stores
                 /\ req'[1].pc = "save"
                 /\ req'[1].res = <<>> )
         /\ rq.pc = "save" /\ wellFormed(rq)
            => ( /\ OneMore(coll, Target(rq, courses', jobs'), rq.input)
                 /\ Other(rq, courses', jobs') = Other(rq, courses, jobs)
                 /\ req'[1].pc = "done"
                 /\ req'[1].res = Created(rq) )

\* C8, amended: a create equal to a stored record in every submitted field
\* is rejected as a duplicate and persists nothing; one that differs from
\* every stored record persists exactly one new record, provided a Course's
\* department has four letters and its category is an enum value, and a
\* Job's position is an enum value.
C8_CreateWellFormed == [][CreateStep(WellFormed)]_vars

\* A Course that differs from the stored one was created beside it.
C8_SecondCourseCreated ==
  /\ req[1].op = "coursePost"
  /\ req[1].res = <<"redirect /course/edit">>
  /\ Cardinality(courses) = 2

Whatever(rq) == TRUE

\* C8 as stated: every create that differs from every stored record in a
\* submitted field persists exactly one new record.
C8_CreateAlways == [][CreateStep(Whatever)]_vars

\* The data row of chain i of the import in slot 1.
RowOf(i) == UploadData(req[1].input.sheet)[i]

\* The import in slot 1 has run out, and chain i was its only data row.
ImportedAlone(op, i) ==
  /\ req[1].op = op
  /\ ChainsDone(1)
  /\ i \in 1..Len(rows[1])
  /\ \A k \in 1..Len(rows[1]) : rows[1][k].pc = "hole" <=> k # i

\* The Courses a "DEPT NUMBER" cell names for a supervisor and a semester.
RowCourses(text, sup, sem) ==
  {c \in courses :
     /\ c.faculty = sup /\ c.semester = sem
     /\ RegExpTestI(PatternAt(SplitSpace(text), 0), c.department)
     /\ c.number = ParseIntAt(SplitSpace(text), 1)}

\* A valid Job row: the supervisor and the semester resolve, the course cell
\* is empty or resolves, the position is one of the enum and the onyen is a
\* Student's.
ValidJobRow(row) ==
  LET sup == FacultyByName(row.supervisorText)
      sem == SemesterByParts(SplitSpace(row.semesterText))
  IN /\ toUpperCase(row.position) \in PositionEnum
     /\ sup # Null
     /\ sem # Null
     /\ Present(row, "courseText") => RowCourses(row.courseText, sup._id, sem._id) # {}
     /\ \E s \in students : s.onyen = row.onyen

\* The stored Jobs with the fields of the row.
RowJobs(row) ==
  LET sup == FacultyByName(row.supervisorText)
      sem == SemesterByParts(SplitSpace(row.semesterText))
  IN {j \in jobs :
        /\ j.position = toUpperCase(row.position)
        /\ j.supervisor = sup._id
        /\ j.semester = sem._id
        /\ Present(row, "courseText")
           => \E c \in RowCourses(row.courseText, sup._id, sem._id) : j.course = c._id}

Occurrences(hist, id) == Cardinality({k \in 1..Len(hist) : hist[k] = id})

\* C9: once an import of one valid Job row has run out (the first import of
\* the row or a later one), exactly one Job with the row's fields is stored
\* and the jobHistory of the row's student holds that Job's id exactly once.
C9_JobRowImportedOnce ==
  \A i \in 1..MaxRow :
    ImportedAlone("jobUpload", i) /\ ValidJobRow(RowOf(i))
    => /\ Cardinality(RowJobs(RowOf(i))) = 1
       /\ \A j \in RowJobs(RowOf(i)) : \A s \in students :
            s.onyen = RowOf(i).onyen => Occurrences(s.jobHistory, j._id) = 1

\* The import of a valid row with a course cell has run out and no Job with
\* the row's fields is stored.
C9_CourseRowLeftNoJob ==
  \E i \in 1..MaxRow :
    /\ ImportedAlone("jobUpload", i)
    /\ ValidJobRow(RowOf(i))
    /\ Present(RowOf(i), "courseText")
    /\ rows[1][i].pc = "died"
    /\ RowJobs(RowOf(i)) = {}

\* The row of the scenario: 'Smith, Jane', 'FA 2024', category 's'.
ScenarioRow(row) ==
  /\ AllPresent(row, CourseCells)
  /\ row.facultyText = SmithJane
  /\ row.semesterText = FA \o <<" ">> \o Y2024
  /\ row.category = "s"

\* C10: with the Faculty Smith/Jane and the Semester 2024/FA stored, once the
\* import of the scenario's row has run out exactly one Course with the row's
\* department and number is stored, with category 'Systems', that Faculty
\* and that Semester (and so exactly one Course if none was stored before).
C10_ScenarioYieldsOneCourse ==
  \A i \in 1..MaxRow :
    ImportedAlone("courseUpload", i) /\ ScenarioRow(RowOf(i))
    => \E f \in faculty : \E m \in semesters :
         /\ f.lastName = Smith /\ f.firstName = Jane
         /\ m.year = 2024 /\ m.season = FA
         /\ Cardinality({c \in courses :
                           /\ c.department = RowOf(i).department
                           /\ c.number = RowOf(i).number
                           /\ c.category = "Systems"
                           /\ c.faculty = f._id
                           /\ c.semester = m._id}) = 1

\* The import of the scenario's row has run out and no Course is stored.
C10_ScenarioLeftNoCourse ==
  \E i \in 1..MaxRow :
    /\ ImportedAlone("courseUpload", i)
    /\ ScenarioRow(RowOf(i))
    /\ rows[1][i].pc = "died"
    /\ courses = {}

FacultyIncorrect == "did not save because the faculty is incorrect."

\* C11: when the Faculty lookup of a course row finds nobody, the row's chain
\* ends in that step: the Courses are what they were, the one call on the
\* response is the row error that the faculty is incorrect, and the chain
\* never reaches the semester lookup, the duplicate lookup or the insert.
C11_UnresolvedFacultyEndsRow ==
  [][ \A i \in 1..Len(rows[1]) :
        ( /\ req[1].op = "courseUpload"
          /\ rows[1][i].pc = "facultyFind"
          /\ FacultyByName(rows[1][i].cells.facultyText) = Null
          /\ rows'[1] # <<>>
          /\ rows'[1][i] # rows[1][i] )
        => ( /\ courses' = courses
             /\ rows'[1][i].pc = "done"
             /\ rows'[1][i].err = FacultyIncorrect
             /\ rows'[1][i].element.faculty = 0
             /\ rows'[1][i].element.semester = 0
             /\ req'[1].res = Append(req[1].res, FacultyIncorrect) ) ]_vars

\* The import of a row naming an unknown faculty has run out with that error.
C11_FacultyErrorRendered ==
  \E i \in 1..MaxRow :
    /\ ImportedAlone("courseUpload", i)
    /\ RowOf(i).facultyText = DoeJohn
    /\ rows[1][i].err = FacultyIncorrect
    /\ Occurrences(req[1].res, FacultyIncorrect) = 1

IsUpload(rq) == rq.op \in {"courseUpload", "jobUpload"}

\* The chains of the import in slot 1 that stand for a row (not for a hole).
RowChains == {k \in 1..Len(rows[1]) : rows[1][k].pc # "hole"}

\* C12: in an import, sheet rows 1 and 2 get no chain: the chains are as many
\* as the sheet has rows from row 3 on, and chain k is sheet row k + 2.
C12_FirstTwoRowsDiscarded ==
  IsUpload(req[1])
  => /\ Cardinality(RowChains) = Cardinality({n \in 3..MaxRow : req[1].input.sheet[n] # NoRow})
     /\ \A k \in RowChains :
          /\ k + 2 <= MaxRow
          /\ req[1].input.sheet[k + 2] # NoRow
          /\ rows[1][k].cells.semesterText = req[1].input.sheet[k + 2].semesterText

\* A chain runs on the cells of sheet row 2, the sheet having no row 3.
C12_SecondRowProcessed ==
  /\ IsUpload(req[1])
  /\ req[1].input.sheet[2] # NoRow
  /\ req[1].input.sheet[3] = NoRow
  /\ RowChains = {1}
  /\ rows[1][1].cells.semesterText = req[1].input.sheet[2].semesterText
  /\ rows[1][1].pc \notin {"facultyFind", "hole"}

\* Row i of the import in slot 1 passes every check of its import: no field
\* is missing, the faculty and the semester resolve as the import reads
\* them, and the enum field will hold an enum value (a job row has no course
\* cell).
Passing(i) ==
  /\ i \in RowChains
  /\ FacultyByName(rows[1][i].cells.facultyText) # Null
  /\ IF req[1].op = "courseUpload"
     THEN /\ AllPresent(RowOf(i), CourseCells)
          /\ SemesterByParts(SplitComma(RowOf(i).semesterText)) # Null
          /\ NormalizeCategory(RowOf(i).category) \in CategoryEnum
     ELSE /\ Present(RowOf(i), "position")
          /\ Present(RowOf(i), "supervisorText")
          /\ Present(RowOf(i), "semesterText")
          /\ SemesterByParts(SplitSpace(RowOf(i).semesterText)) # Null
          /\ toUpperCase(RowOf(i).position) \in PositionEnum
          /\ ~Present(RowOf(i), "courseText")

\* The ids left are enough for every row of the import in slot 1.
IdsLeft == nextId + Cardinality(RowChains) - 1 <= MaxId

\* The record of row i is stored.
Inserted(i) ==
  IF req[1].op = "courseUpload"
  THEN \E c \in courses :
         /\ c.department = RowOf(i).department
         /\ c.number = RowOf(i).number
         /\ c.category = NormalizeCategory(RowOf(i).category)
         /\ c.faculty = FacultyByName(RowOf(i).facultyText)._id
         /\ c.semester = SemesterByParts(SplitComma(RowOf(i).semesterText))._id
  ELSE \E j \in jobs :
         /\ j.position = toUpperCase(RowOf(i).position)
         /\ j.supervisor = FacultyByName(RowOf(i).supervisorText)._id
         /\ j.semester = SemesterByParts(SplitSpace(RowOf(i).semesterText))._id

\* Every chain of the import is over and every passing row is stored.
Settled ==
  /\ IsUpload(req[1])
  /\ ChainsDone(1)
  /\ \A i \in RowChains : Passing(i) => Inserted(i)

Redirect == "redirect /upload"

MissingField == "did not save because it is missing a field."

\* Chain i of the import in slot 1 has a database call outstanding.
Pending(i) == i \in 1..Len(rows[1]) /\ rows[1][i].pc \notin FinalPc

\* C14: the step that takes an upload leaves the redirect on the response
\* with every row's chain at its first query (or already refused for a
\* missing field) and nothing stored; the redirect stays the one answer of
\* the handler from then on; and no pending chain waits for another chain or
\* for the response: its next step can be taken at once (ids permitting).
C14_RedirectBeforeRows ==
  [][ /\ IsUpload(req'[1])
         => /\ req'[1].pc = "done"
            /\ Occurrences(req'[1].res, Redirect) = 1
      /\ (Free(1) /\ IsUpload(req'[1]))
         => /\ stores' = stores
            /\ req'[1].res[Len(req'[1].res)] = Redirect
            /\ \A k \in 1..Len(rows'[1]) :
                 \/ rows'[1][k].pc \in {"hole", "facultyFind"}
                 \/ rows'[1][k].pc = "done" /\ rows'[1][k].err = MissingField
      /\ (IsUpload(req[1]) /\ IdsLeft)
         => \A i \in 1..MaxRow : Pending(i) => ENABLED ChainStep(i) ]_vars

\* The redirect is sent, the second row is over and stored, and the insert
\* of the first row is still to come.
C14_RespondedWithInsertPending ==
  /\ IsUpload(req[1])
  /\ Occurrences(req[1].res, Redirect) = 1
  /\ {1, 2} \subseteq RowChains
  /\ rows[1][1].pc = "save"
  /\ rows[1][2].pc = "done" /\ rows[1][2].err = ""
  /\ Passing(2) /\ Inserted(2)

IsPut(rq) == rq.op \in {"coursePut", "jobPut"}

NotFound(rq) == IF rq.op = "coursePut" THEN "json CourseNotFound" ELSE "json JobNotFound"

\* The collection a put works on, before and after the step.
PutColl(rq) == IF rq.op = "coursePut" THEN courses ELSE jobs

PutCollAfter(rq) == IF rq.op = "coursePut" THEN courses' ELSE jobs'

\* The collections a put has no business with are as they were.
RestKept(rq) ==
  /\ faculty' = faculty /\ semesters' = semesters
  /\ grades' = grades /\ students' = students /\ nextId' = nextId
  /\ IF rq.op = "coursePut" THEN jobs' = jobs ELSE courses' = courses

\* C15: the step that takes a put stores nothing; the findOneAndUpdate of a
\* put whose _id matches no record leaves every collection as it was and
\* ends the request with the not-found error as its last answer; the one of a
\* put whose _id matches sets the submitted fields on that record, keeps its
\* other fields and its _id, and leaves every other record as it was.
C15_PutNeverCreates ==
  [][ /\ (Free(1) /\ IsPut(req'[1])) => (stores' = stores /\ nextId' = nextId)
      /\ (IsPut(req[1]) /\ req[1].pc = "findOneAndUpdate")
         => LET rq == req[1]
                hit == {d \in PutColl(rq) : d._id = rq.input._id}
            IN /\ RestKept(rq)
               /\ req'[1].pc = "done"
               /\ IF hit = {}
                  THEN /\ PutCollAfter(rq) = PutColl(rq)
                       /\ req'[1].res[Len(req'[1].res)] = NotFound(rq)
                  ELSE \E old \in hit : \E new \in PutCollAfter(rq) :
                         /\ hit = {old}
                         /\ PutCollAfter(rq) \ {new} = PutColl(rq) \ {old}
                         /\ new._id = old._id
                         /\ DOMAIN new = DOMAIN old
                         /\ \A f \in DOMAIN old \ {"_id"} :
                              new[f] = IF Present(rq.input, f) THEN rq.input[f] ELSE old[f]
                         /\ NotFound(rq) \notin Range(req'[1].res) ]_vars

\* A Job put naming no stored Job has been answered JobNotFound, a Job
\* being stored.
C15_JobNotFoundAnswered ==
  /\ req[1].op = "jobPut"
  /\ req[1].res = <<"json JobNotFound">>
  /\ jobs # {}
  /\ \A j \in jobs : j._id # req[1].input._id

StudentNotFound == "did not save job because student was not found."

\* The row of chain i resolves and a stored Job has its fields.
Duplicates(i) ==
  /\ i \in RowChains
  /\ Present(RowOf(i), "position")
  /\ FacultyByName(RowOf(i).supervisorText) # Null
  /\ SemesterByParts(SplitSpace(RowOf(i).semesterText)) # Null
  /\ RowJobs(RowOf(i)) # {}

\* C16: the chain of a Job row that duplicates a stored Job, at each of its
\* steps from the first query to the end (the save of a row whose own check
\* found no Job set aside): inserts no Job; does not end before
\* pushStudentJob; takes the stored Job's id from the duplicate check; ends
\* with the student-not-found error and no Student changed when the onyen
\* is nobody's; and otherwise leaves the id in the jobHistory of the Student
\* of that onyen, every other Student being as before.
C16_DuplicateRowStillLinked ==
  [][ \A i \in 1..MaxRow :
        ( /\ req[1].op = "jobUpload"
          /\ Pending(i)
          /\ rows[1][i].pc # "save"
          /\ Duplicates(i)
          /\ rows'[1][i] # rows[1][i] )
        => LET ch == rows[1][i]
               after == rows'[1][i]
               named == {s \in students : s.onyen = RowOf(i).onyen}
           IN /\ jobs' = jobs
              /\ after.pc \in FinalPc => ch.pc \in {"pushFind", "pushUpdate"}
              /\ ch.pc = "jobFind"
                 => /\ after.pc = "pushFind"
                    /\ \E j \in RowJobs(RowOf(i)) : after.jobId = j._id
              /\ ch.pc = "pushFind"
                 => /\ students' = students
                    /\ IF named = {}
                       THEN /\ after.pc = "done" /\ after.err = StudentNotFound
                            /\ req'[1].res = Append(req[1].res, StudentNotFound)
                       ELSE after.pc = "pushUpdate" /\ after.err = ""
              /\ ch.pc = "pushUpdate"
                 => /\ \A s \in students' :
                         s.onyen = RowOf(i).onyen => ch.jobId \in Range(s.jobHistory)
                    /\ \A s \in students : s.onyen # RowOf(i).onyen => s \in students'
                    /\ Cardinality(students') = Cardinality(students) ]_vars

\* The import of a row with a course cell that duplicates a stored Job has
\* run out, and the Student of its onyen has an empty jobHistory.
C16_DuplicateRowLeftUnlinked ==
  \E i \in 1..MaxRow :
    /\ ImportedAlone("jobUpload", i)
    /\ Duplicates(i)
    /\ Present(RowOf(i), "courseText")
    /\ rows[1][i].pc = "died"
    /\ \E s \in students : s.onyen = RowOf(i).onyen /\ s.jobHistory = <<>>

\* The category the import is to store for a category cell.
Mapped(c) ==
  IF c \in {"t", "T"} THEN "Theory"
  ELSE IF c \in {"s", "S"} THEN "Systems"
  ELSE IF c \in {"a", "A", "applications", "Applications"} THEN "Appls"
  ELSE c

\* C17: in a course import the element of a row carries the mapped category
\* from the moment its duplicate check is issued; the duplicate check finds
\* a Course exactly when one is stored with the row's resolved fields and
\* the mapped category; and the insert stores the mapped category, or
\* nothing when that is no enum value.
C17_CategoryMappedBeforeUse ==
  [][ \A i \in 1..MaxRow :
        ( /\ req[1].op = "courseUpload"
          /\ Pending(i)
          /\ rows'[1][i] # rows[1][i] )
        => LET ch == rows[1][i]
               after == rows'[1][i]
               want == Mapped(RowOf(i).category)
               same == {c \in courses :
                          /\ c.category = want
                          /\ \A f \in CourseFields \ {"category"} : c[f] = ch.element[f]}
           IN /\ after.pc \in {"courseFind", "save"} => after.element.category = want
              /\ ch.pc = "courseFind" => (after.pc = "done" <=> same # {})
              /\ ch.pc = "courseFind" => (after.pc = "save" <=> same = {})
              /\ ch.pc = "save"
                 => IF want \in CategoryEnum
                    THEN \E c \in courses' :
                           /\ courses' = courses \cup {c}
                           /\ c \notin courses
                           /\ c.category = want
                    ELSE courses' = courses ]_vars

\* The import of a row of category 'applications' has run out and a Course
\* of category 'Appls' is stored.
C17_ApplicationsStoredAsAppls ==
  \E i \in 1..MaxRow :
    /\ ImportedAlone("courseUpload", i)
    /\ RowOf(i).category = "applications"
    /\ rows[1][i].err = ""
    /\ \E c \in courses : c.category = "Appls" /\ c.department = RowOf(i).department

\* The supervisor or the course of a Job (or of the body of one) names no
\* stored document.
Dangling(j) ==
  \/ Present(j, "supervisor") /\ \A f \in faculty : f._id # j.supervisor
  \/ Present(j, "course") /\ \A c \in courses : c._id # j.course

\* C18: a jobController.post whose supervisor or course names no stored
\* document persists no Job and ends with an error page rendered; every Job
\* a post persists references stored documents only.
C18_DanglingJobRejected ==
  [][ ( /\ req[1].op = "jobPost"
        /\ req[1].pc # "done" )
      => /\ \A j \in jobs' \ jobs : ~Dangling(j)
         /\ Dangling(req[1].input)
            => /\ jobs' = jobs
               /\ req'[1].pc = "done"
                  => /\ req'[1].res # <<>>
                     /\ req'[1].res # <<"redirect /job/edit">> ]_vars

\* A post has been answered with the redirect to the Job it created, and
\* that Job's supervisor is no stored Faculty.
C18_DanglingJobStored ==
  /\ req[1].op = "jobPost"
  /\ req[1].res = <<"redirect /job/edit">>
  /\ \E j \in jobs :
       /\ j._id = nextId - 1
       /\ j.supervisor = req[1].input.supervisor
       /\ \A f \in faculty : f._id # j.supervisor

\* C19: every id in the jobHistory of a Student is the id of a stored Job.
C19_NoDanglingJobReference ==
  \A s \in students : \A id \in Range(s.jobHistory) : \E j \in jobs : j._id = id

\* The delete in slot 2 has removed a Job after its student check found
\* nobody, and the assign in slot 1 has put that Job's id in a jobHistory.
C19_AssignedJobRemoved ==
  /\ req[1].op = "jobAssign"
  /\ req[2].op = "jobDelete" /\ req[2].res = <<"redirect /job">>
  /\ req[1].input._id = req[2].input._id
  /\ \A j \in jobs : j._id # req[2].input._id
  /\ \E s \in students : req[2].input._id \in Range(s.jobHistory)

\* The stored Jobs with exactly the resolved fields of a row without a
\* course cell.
SameJobs(row) == {j \in RowJobs(row) : ~Present(j, "course")}

\* The job import in slot 1 has run out; its first two data rows are the
\* same row, which resolves and has no course cell.
TwinRowsImported ==
  /\ req[1].op = "jobUpload"
  /\ ChainsDone(1)
  /\ {1, 2} \subseteq RowChains
  /\ RowOf(1) = RowOf(2)
  /\ ~Present(RowOf(1), "courseText")
  /\ Present(RowOf(1), "position")
  /\ FacultyByName(RowOf(1).supervisorText) # Null
  /\ SemesterByParts(SplitSpace(RowOf(1).semesterText)) # Null

\* C20: once the chains of two identical rows of one sheet are over, at most
\* one Job with the fields of the row is stored.
C20_TwinRowsOneJob == TwinRowsImported => Cardinality(SameJobs(RowOf(1))) <= 1

\* Both chains of two identical rows have inserted: two Jobs with the
\* fields of the row are stored, one per chain.
C20_TwinRowsTwoJobs ==
  /\ TwinRowsImported
  /\ Cardinality(SameJobs(RowOf(1))) = 2
  /\ rows[1][1].jobId # rows[1][2].jobId
  /\ \A k \in {1, 2} : \E j \in SameJobs(RowOf(1)) : j._id = rows[1][k].jobId

\* C21: every request gets at most one response: at most one of res.render,
\* res.redirect and res.json is ever called on the response of one request,
\* whichever path the handler and its callbacks take.
C21_AtMostOneResponse ==
  \A r \in Slots : Len(req[r].res) <= 1

\* A course import has called res twice and more: the redirect that ends the
\* handler, and the render of a row whose Faculty lookup found nobody.
C21_RedirectAndRowError ==
  /\ req[1].op = "courseUpload"
  /\ \E a, b \in 1..Len(req[1].res) :
       /\ a # b
       /\ req[1].res[a] = "redirect /upload"
       /\ req[1].res[b] = FacultyIncorrect

====
